---- MODULE Spec2Model ----
(***************************************************************************)
(* Model of code-network-gen: the three script variants index.js,          *)
(* part_000 (method-registry variant) and part_001 (reference-graph        *)
(* variant).  Each scans a directory, parses every file with acorn, walks  *)
(* the tree with acorn-walk's simple() and pushes node and edge records    *)
(* onto two global arrays; deduplicate() and displayResults() then merge,  *)
(* filter and report them.                                                 *)
(*                                                                         *)
(* Strings are modelled as sequences of tokens (Str).  A template literal  *)
(* `${a}-${b}` is the concatenation a \o <<"-">> \o b, so two different    *)
(* pairs whose renderings coincide have equal keys here as in the code.    *)
(* The separators the code inserts or searches for ("-", ":", "/", ", ")   *)
(* are tokens of their own, and no token is a concatenation of others.     *)
(***************************************************************************)
EXTENDS Naturals, Sequences, FiniteSets, TLC

VARIABLES variant, parentLinks, output, files, pos, cur, queue,
          nodes, edges, methodRegistry, warnings, errors, out, pc

vars == <<variant, parentLinks, output, files, pos, cur, queue,
          nodes, edges, methodRegistry, warnings, errors, out, pc>>

\* Largest number of files one scan meets.
MaxFiles == 2

\* null / undefined / "" : the falsy values a string field can hold.
Null == << >>

Range(s) == {s[i] : i \in DOMAIN s}

\* String.prototype.includes for a separator or word that is a token.
includes(s, tok) == tok \in Range(s)

\* Concatenation of a sequence of strings with a separator (Array.join).
RECURSIVE join(_, _)
join(parts, sep) ==
  IF parts = << >> THEN << >>
  ELSE IF Len(parts) = 1 THEN parts[1]
  ELSE parts[1] \o sep \o join(Tail(parts), sep)

\* Concatenation of a sequence of sequences.
RECURSIVE Flatten(_)
Flatten(ss) == IF ss = << >> THEN << >> ELSE ss[1] \o Flatten(Tail(ss))

(***************************************************************************)
(* Syntax trees, as acorn.parse returns them (only the fields the visitors *)
(* read; loc is <<start line, end line>>).                                 *)
(***************************************************************************)
Ident(name) == [type |-> "Identifier", name |-> name]

\* A declarator without initializer: node.init is null.
NoInit == [type |-> "null"]

\* A literal; json is what JSON.stringify(arg.value) renders.
Literal_(json) == [type |-> "Literal", json |-> json]

MemberExpression_(object, property) ==
  [type |-> "MemberExpression", object |-> Ident(object), property |-> Ident(property)]

FunctionDeclaration_(name, s, e, body) ==
  [type |-> "FunctionDeclaration", id |-> name, loc |-> <<s, e>>, body |-> body]

CallExpression_(callee, line, args) ==
  [type |-> "CallExpression", callee |-> callee, loc |-> <<line, line>>,
   arguments |-> args]

ImportDeclaration_(source, specifiers, line) ==
  [type |-> "ImportDeclaration", source |-> source, specifiers |-> specifiers,
   loc |-> <<line, line>>]

ImportSpecifier_(imported) == [type |-> "ImportSpecifier", imported |-> imported]
ImportDefaultSpecifier_(local) == [type |-> "ImportDefaultSpecifier", local |-> local]
ImportNamespaceSpecifier_(local) == [type |-> "ImportNamespaceSpecifier", local |-> local]

ArrowFunctionExpression_(s, e, body) ==
  [type |-> "ArrowFunctionExpression", loc |-> <<s, e>>, body |-> body]

FunctionExpression_(s, e, body) ==
  [type |-> "FunctionExpression", loc |-> <<s, e>>, body |-> body]

VariableDeclarator_(name, init, s, e) ==
  [type |-> "VariableDeclarator", id |-> name, init |-> init, loc |-> <<s, e>>]

ClassDeclaration_(name, s, e, body) ==
  [type |-> "ClassDeclaration", id |-> name, loc |-> <<s, e>>, body |-> body]

MethodDefinition_(key, s, e, body) ==
  [type |-> "MethodDefinition", key |-> key, loc |-> <<s, e>>, body |-> body]

Property_(key, value, s, e) ==
  [type |-> "Property", key |-> key, value |-> value, loc |-> <<s, e>>]

ObjectExpression_(properties) ==
  [type |-> "ObjectExpression", properties |-> properties]

ExportDefaultDeclaration_(declaration, s, e) ==
  [type |-> "ExportDefaultDeclaration", declaration |-> declaration,
   loc |-> <<s, e>>]

\* The child nodes acorn-walk's base visitor descends into, in its order.
children(node) ==
  CASE node.type \in {"FunctionDeclaration", "ClassDeclaration", "MethodDefinition",
                      "ArrowFunctionExpression", "FunctionExpression"} -> node.body
    [] node.type = "VariableDeclarator" ->
         IF node.init.type = "null" THEN << >> ELSE <<node.init>>
    [] node.type = "ExportDefaultDeclaration" -> <<node.declaration>>
    [] node.type = "ObjectExpression" -> node.properties
    [] node.type = "Property" -> <<node.value>>
    [] OTHER -> << >>

\* What an ancestor loop reads of a node: its type and the name of its id / key.
ancestor(node) ==
  [type |-> node.type,
   id   |-> IF "id" \in DOMAIN node THEN node.id ELSE Null,
   key  |-> IF "key" \in DOMAIN node THEN node.key ELSE Null]

(***************************************************************************)
(* walk.simple(ast, visitors): every node's children are walked before the *)
(* node's own visitor runs.  The result is the sequence of visitor calls,  *)
(* each with the node and the chain node.parent, node.parent.parent, ...   *)
(***************************************************************************)
RECURSIVE simple(_, _)
simple(node, parents) ==
  LET kids == children(node)
      below == [i \in DOMAIN kids |-> simple(kids[i], <<ancestor(node)>> \o parents)]
  IN Flatten(below) \o <<[node |-> node, parents |-> parents]>>

\* The visitor calls of a whole program body.
walk(body) == Flatten([i \in DOMAIN body |-> simple(body[i], << >>)])

(***************************************************************************)
(* Record constructors and template literals shared by the variants.       *)
(***************************************************************************)
tFunction == <<"function">>
tMethod == <<"method">>
tClass == <<"class">>
tVariable == <<"variable">>
tVueMethod == <<"vue", "-", "method">>
tLibrary == <<"library">>
tImportedMethod == <<"imported", "-", "method">>
tUnknown == <<"unknown">>
tCalls == <<"calls">>
tImports == <<"imports">>
arrowFunction == <<"arrow", " ", "function">>

\* `${v}` of a value that may be undefined.
templ(v) == IF v = Null THEN <<"undefined">> ELSE v

\* `[${node.loc.start.line}-${node.loc.end.line}]`
linesOf(node) == <<"[", ToString(node.loc[1]), "-", ToString(node.loc[2]), "]">>

\* `${fileName}:${name}`
qualified(fileName, name) == fileName \o <<":">> \o templ(name)

\* path.basename(filePath): what follows the last "/".
RECURSIVE basename(_)
basename(path) ==
  IF ~ includes(path, "/") THEN path
  ELSE basename(Tail(path))

isFunctionValue(node) ==
  node.type \in {"FunctionExpression", "ArrowFunctionExpression"}

\* The accumulators one extraction run works on.
Accum(ns, es, reg) == [nodes |-> ns, edges |-> es, methodRegistry |-> reg]

\* A visitor's outcome: the accumulators, and whether it raised a TypeError.
Ok(st) == [st |-> st, threw |-> FALSE]
Threw(st) == [st |-> st, threw |-> TRUE]

\* The chain of node.parent links a visitor can follow: acorn's nodes carry
\* them only if the tree builder sets them.
parentChain(ev) == IF parentLinks THEN ev.parents ELSE << >>

(***************************************************************************)
(* part_000: the method-registry variant.                                  *)
(***************************************************************************)
registryHas(reg, id) == \E i \in DOMAIN reg : reg[i].id = id

addNode_p0(st, file, name, type, lines) ==
  LET id == qualified(file, name)
      reg == IF registryHas(st.methodRegistry, id) THEN st.methodRegistry
             ELSE Append(st.methodRegistry, [id |-> id, file |-> file, name |-> name])
  IN [st EXCEPT !.methodRegistry = reg,
                !.nodes = Append(@, [id |-> id, label |-> name, type |-> type,
                                     lines |-> lines])]

addEdge_p0(st, sourceFile, sourceMethod, targetFile, targetMethod, type) ==
  LET sourceId == qualified(sourceFile, sourceMethod)
      targetId == qualified(targetFile, targetMethod)
  IN IF registryHas(st.methodRegistry, targetId)
     THEN [st EXCEPT !.edges = Append(@, [source |-> sourceId, target |-> targetId,
                                          type |-> type])]
     ELSE st

RECURSIVE getEnclosingFunctionName(_)
getEnclosingFunctionName(chain) ==
  IF chain = << >> THEN <<"global">>
  ELSE IF chain[1].type = "FunctionDeclaration" /\ chain[1].id # Null
       THEN chain[1].id
       ELSE getEnclosingFunctionName(Tail(chain))

\* methodRegistry.forEach of the CallExpression visitor, from entry i on.
RECURSIVE registryForEach_p0(_, _, _, _, _)
registryForEach_p0(st, i, fileName, parentFunction, calleeName) ==
  IF i > Len(st.methodRegistry) THEN st
  ELSE LET info == st.methodRegistry[i]
           nxt == IF info.name = calleeName
                  THEN addEdge_p0(st, fileName, parentFunction, info.file,
                                  calleeName, tCalls)
                  ELSE st
       IN registryForEach_p0(nxt, i + 1, fileName, parentFunction, calleeName)

\* properties.forEach of the ExportDefaultDeclaration visitor.
RECURSIVE propertiesForEach_p0(_, _, _)
propertiesForEach_p0(st, props, fileName) ==
  IF props = << >> THEN st
  ELSE LET prop == props[1]
           nxt == IF prop.type = "Property" /\ isFunctionValue(prop.value)
                  THEN addNode_p0(st, fileName, prop.key, tVueMethod, linesOf(prop))
                  ELSE st
       IN propertiesForEach_p0(nxt, Tail(props), fileName)

visitors_p0(st, fileName, ev) ==
  LET node == ev.node IN
  CASE node.type = "FunctionDeclaration" ->
         IF node.id = Null THEN Threw(st)
         ELSE Ok(addNode_p0(st, fileName, node.id, tFunction, linesOf(node)))
    [] node.type = "CallExpression" ->
         IF node.callee.type = "Identifier"
         THEN Ok(registryForEach_p0(st, 1, fileName,
                   getEnclosingFunctionName(parentChain(ev)), node.callee.name))
         ELSE Ok(st)
    [] node.type = "ArrowFunctionExpression" ->
         Ok(addNode_p0(st, fileName, arrowFunction, tMethod, linesOf(node)))
    [] node.type = "ClassDeclaration" ->
         IF node.id = Null THEN Threw(st)
         ELSE Ok(addNode_p0(st, fileName, node.id, tClass, linesOf(node)))
    [] node.type = "MethodDefinition" ->
         Ok(addNode_p0(st, fileName, node.key, tMethod, linesOf(node)))
    [] node.type = "VariableDeclarator" ->
         IF isFunctionValue(node.init)
         THEN Ok(addNode_p0(st, fileName, node.id, tMethod, linesOf(node)))
         ELSE Ok(st)
    [] node.type = "ExportDefaultDeclaration" ->
         IF node.declaration.type = "ObjectExpression"
         THEN Ok(propertiesForEach_p0(st, node.declaration.properties, fileName))
         ELSE Ok(st)
    [] node.type = "Property" ->
         IF isFunctionValue(node.value)
         THEN Ok(addNode_p0(st, fileName, node.key, tVueMethod, linesOf(node)))
         ELSE Ok(st)
    [] OTHER -> Ok(st)

(***************************************************************************)
(* index.js: the plain variant.                                            *)
(***************************************************************************)
addNode_index(st, id, label, type, lines) ==
  [st EXCEPT !.nodes = Append(@, [id |-> id, label |-> label, type |-> type,
                                  lines |-> lines])]

addEdge_index(st, source, target, type) ==
  [st EXCEPT !.edges = Append(@, [source |-> source, target |-> target,
                                  type |-> type])]

importedName_bare(libraryName, specifier) == templ(specifier.imported)

\* `${libraryName}/${specifier.imported.name}`
importedName(libraryName, specifier) == libraryName \o <<"/">> \o templ(specifier.imported)

RECURSIVE specifiersForEach_index(_, _, _, _)
specifiersForEach_index(st, specifiers, libraryName, fileName) ==
  IF specifiers = << >> THEN st
  ELSE LET specifier == specifiers[1]
           methodName == importedName(libraryName, specifier)
           nxt == IF specifier.type = "ImportSpecifier"
                  THEN addEdge_index(
                         addNode_index(st, methodName, specifier.imported,
                                       tImportedMethod, Null),
                         fileName, methodName, tImports)
                  ELSE st
       IN specifiersForEach_index(nxt, Tail(specifiers), libraryName, fileName)

RECURSIVE propertiesForEach_index(_, _, _)
propertiesForEach_index(st, props, fileName) ==
  IF props = << >> THEN st
  ELSE LET prop == props[1]
           nxt == IF prop.type = "Property" /\ isFunctionValue(prop.value)
                  THEN addNode_index(st, qualified(fileName, prop.key), prop.key,
                                     tVueMethod, linesOf(prop))
                  ELSE st
       IN propertiesForEach_index(nxt, Tail(props), fileName)

visitors_index(st, fileName, ev) ==
  LET node == ev.node IN
  CASE node.type = "FunctionDeclaration" ->
         IF node.id = Null THEN Threw(st)
         ELSE Ok(addNode_index(st, qualified(fileName, node.id), node.id, tMethod,
                               linesOf(node)))
    [] node.type = "ImportDeclaration" ->
         Ok(specifiersForEach_index(
              addNode_index(st, node.source, node.source, tLibrary, Null),
              node.specifiers, node.source, fileName))
    [] node.type = "CallExpression" ->
         IF node.callee.type = "Identifier"
         THEN Ok(addEdge_index(st, fileName \o <<":", "anonymous">> \o linesOf(node),
                               node.callee.name, tCalls))
         ELSE Ok(st)
    [] node.type = "ArrowFunctionExpression" ->
         Ok(addNode_index(st, fileName \o <<":", "arrow">>, arrowFunction, tMethod,
                          linesOf(node)))
    [] node.type = "ClassDeclaration" ->
         IF node.id = Null THEN Threw(st)
         ELSE Ok(addNode_index(st, qualified(fileName, node.id), node.id, tClass,
                               linesOf(node)))
    [] node.type = "MethodDefinition" ->
         Ok(addNode_index(st, qualified(fileName, node.key), node.key, tMethod,
                          linesOf(node)))
    [] node.type = "VariableDeclarator" ->
         IF isFunctionValue(node.init)
         THEN Ok(addNode_index(st, qualified(fileName, node.id), node.id, tMethod,
                               linesOf(node)))
         ELSE Ok(st)
    [] node.type = "ExportDefaultDeclaration" ->
         IF node.declaration.type = "ObjectExpression"
         THEN Ok(propertiesForEach_index(st, node.declaration.properties, fileName))
         ELSE Ok(st)
    [] node.type = "Property" ->
         IF isFunctionValue(node.value)
         THEN Ok(addNode_index(st, qualified(fileName, node.key), node.key,
                               tVueMethod, linesOf(node)))
         ELSE Ok(st)
    [] OTHER -> Ok(st)

(***************************************************************************)
(* part_001: the reference-graph variant.                                  *)
(***************************************************************************)
addNode_p1(st, id, label, type, lines) ==
  LET ty == IF type = tUnknown
            THEN IF includes(id, ":") THEN tFunction
                 ELSE IF includes(id, "/") THEN tImportedMethod
                 ELSE tVariable
            ELSE type
  IN [st EXCEPT !.nodes = Append(@, [id |-> id, label |-> label, type |-> ty,
                                     lines |-> lines])]

\* s.split(":")[1]: the text between the first and the second ":" (undefined
\* when s holds no ":").
RECURSIVE upToColon(_)
upToColon(s) ==
  IF s = << >> \/ s[1] = ":" THEN << >> ELSE <<s[1]>> \o upToColon(Tail(s))

RECURSIVE splitSecond(_)
splitSecond(s) ==
  IF s = << >> THEN Null
  ELSE IF s[1] = ":" THEN upToColon(Tail(s))
  ELSE splitSecond(Tail(s))

\* a || b on strings.
orElse(a, b) == IF a # Null THEN a ELSE b

ensureNodeExists(st, id, label, type) ==
  IF ~ \E i \in DOMAIN st.nodes : st.nodes[i].id = id
  THEN addNode_p1(st, id, orElse(label, orElse(splitSecond(id), id)),
                  orElse(type, tUnknown), Null)
  ELSE st

addEdge_p1(st, source, target, type) ==
  LET s1 == ensureNodeExists(st, source, orElse(splitSecond(source), source), tUnknown)
      s2 == ensureNodeExists(s1, target, orElse(splitSecond(target), target), tUnknown)
  IN [s2 EXCEPT !.edges = Append(@, [source |-> source, target |-> target,
                                     type |-> type])]

RECURSIVE specifiersForEach_p1(_, _, _, _)
specifiersForEach_p1(st, specifiers, libraryName, fileName) ==
  IF specifiers = << >> THEN st
  ELSE LET specifier == specifiers[1]
           methodName == importedName(libraryName, specifier)
           nxt == IF specifier.type = "ImportSpecifier"
                  THEN addEdge_p1(
                         addNode_p1(st, methodName, specifier.imported,
                                    tImportedMethod, Null),
                         fileName, methodName, tImports)
                  ELSE st
       IN specifiersForEach_p1(nxt, Tail(specifiers), libraryName, fileName)

RECURSIVE propertiesForEach_p1(_, _, _)
propertiesForEach_p1(st, props, fileName) ==
  IF props = << >> THEN st
  ELSE LET prop == props[1]
           nxt == IF prop.type = "Property" /\ isFunctionValue(prop.value)
                  THEN addNode_p1(st, qualified(fileName, prop.key), prop.key,
                                  tVueMethod, linesOf(prop))
                  ELSE st
       IN propertiesForEach_p1(nxt, Tail(props), fileName)

\* The parent loop of the CallExpression visitor.
RECURSIVE callerName_p1(_, _, _)
callerName_p1(chain, fileName, fallback) ==
  IF chain = << >> THEN fallback
  ELSE IF chain[1].type = "FunctionDeclaration" /\ chain[1].id # Null
       THEN qualified(fileName, chain[1].id)
       ELSE IF chain[1].type = "MethodDefinition"
            THEN qualified(fileName, chain[1].key)
            ELSE callerName_p1(Tail(chain), fileName, fallback)

\* The rendering of one call argument.
argText(arg) ==
  CASE arg.type = "Identifier" -> arg.name
    [] arg.type = "Literal" -> arg.json
    [] arg.type = "MemberExpression" ->
         templ(arg.object.name) \o <<".">> \o templ(arg.property.name)
    [] OTHER -> <<arg.type>>

visitors_p1(st, fileName, ev) ==
  LET node == ev.node IN
  CASE node.type = "FunctionDeclaration" ->
         IF node.id = Null THEN Threw(st)
         ELSE Ok(addNode_p1(st, qualified(fileName, node.id), node.id, tMethod,
                            linesOf(node)))
    [] node.type = "ImportDeclaration" ->
         Ok(specifiersForEach_p1(
              addNode_p1(st, node.source, node.source, tLibrary, Null),
              node.specifiers, node.source, fileName))
    [] node.type = "CallExpression" ->
         IF node.callee.type = "Identifier"
         THEN LET fallback == fileName \o <<":", "anonymous", "[",
                                            ToString(node.loc[1]), "]">>
                  callerName == callerName_p1(parentChain(ev), fileName, fallback)
                  args == join([i \in DOMAIN node.arguments |->
                                  argText(node.arguments[i])], <<", ">>)
              IN Ok(addEdge_p1(st, callerName, node.callee.name,
                               <<"calls", "(">> \o args \o <<")">>))
         ELSE Ok(st)
    [] node.type = "ArrowFunctionExpression" ->
         Ok(addNode_p1(st, fileName \o <<":", "arrow">>, arrowFunction, tMethod,
                       linesOf(node)))
    [] node.type = "ClassDeclaration" ->
         IF node.id = Null THEN Threw(st)
         ELSE Ok(addNode_p1(st, qualified(fileName, node.id), node.id, tClass,
                            linesOf(node)))
    [] node.type = "MethodDefinition" ->
         Ok(addNode_p1(st, qualified(fileName, node.key), node.key, tMethod,
                       linesOf(node)))
    [] node.type = "VariableDeclarator" ->
         IF isFunctionValue(node.init)
         THEN Ok(addNode_p1(st, qualified(fileName, node.id), node.id, tMethod,
                            linesOf(node)))
         ELSE Ok(st)
    [] node.type = "ExportDefaultDeclaration" ->
         IF node.declaration.type = "ObjectExpression"
         THEN Ok(propertiesForEach_p1(st, node.declaration.properties, fileName))
         ELSE Ok(st)
    [] node.type = "Property" ->
         IF isFunctionValue(node.value)
         THEN Ok(addNode_p1(st, qualified(fileName, node.key), node.key,
                            tVueMethod, linesOf(node)))
         ELSE Ok(st)
    [] OTHER -> Ok(st)

(***************************************************************************)
(* The Resolver: deduplicate and displayResults.                           *)
(*                                                                         *)
(* The Maps hold references to the records of the raw array, so            *)
(* `existingNode.lines += ...` writes into the raw array.  A loop's state  *)
(* is the raw array, the keys in insertion order and, per key, the index   *)
(* of the raw record the Map holds.                                        *)
(***************************************************************************)
nodeKey_idOnly(node) == node.id

\* `${node.id}-${node.type}`
nodeKey(node) == node.id \o <<"-">> \o node.type

\* `${edge.source}-${edge.target}-${edge.type}`
edgeKey(edge) == edge.source \o <<"-">> \o edge.target \o <<"-">> \o edge.type

\* item.lines / item.label of a record that may lack the field (undefined).
fieldLines(item) == IF "lines" \in DOMAIN item THEN item.lines ELSE Null
fieldLabel(item) == IF "label" \in DOMAIN item THEN item.label ELSE Null

\* Map.get: the position of a key among the keys inserted so far, 0 if absent.
mapIndex(keys, key) ==
  IF \E j \in DOMAIN keys : keys[j] = key
  THEN CHOOSE j \in DOMAIN keys : keys[j] = key
  ELSE 0

mergeLines_prepend(existing, lines) == lines \o <<", ">> \o existing

\* existingNode.lines += `, ${node.lines}`
mergeLines(existing, lines) == existing \o <<", ">> \o lines

\* nodes.forEach of deduplicate (part_000 and part_001 are the same text).
dedupNodes(raw) ==
  LET step[i \in 0..Len(raw)] ==
        IF i = 0 THEN [raw |-> raw, keys |-> << >>, rep |-> << >>]
        ELSE LET p == step[i - 1]
                 node == p.raw[i]
                 key == nodeKey(node)
                 j == mapIndex(p.keys, key)
             IN IF j = 0
                THEN [p EXCEPT !.keys = Append(@, key), !.rep = Append(@, i)]
                ELSE IF node.lines # Null /\ p.raw[p.rep[j]].lines # Null
                     THEN [p EXCEPT !.raw[p.rep[j]].lines = mergeLines(@, node.lines)]
                     ELSE p
  IN step[Len(raw)]

\* edges.forEach of deduplicate: the kept edges and the referenced ids.
dedupEdges(es) ==
  LET step[i \in 0..Len(es)] ==
        IF i = 0 THEN [keys |-> << >>, unique |-> << >>, referenced |-> {}]
        ELSE LET p == step[i - 1]
                 edge == es[i]
                 key == edgeKey(edge)
             IN IF mapIndex(p.keys, key) = 0
                THEN [keys |-> Append(p.keys, key),
                      unique |-> Append(p.unique, edge),
                      referenced |-> p.referenced \cup {edge.source, edge.target}]
                ELSE p
  IN step[Len(es)]

\* deduplicate(nodes, edges) of part_000 / part_001.  nodes and edges are what
\* it returns; unique is uniqueNodes before the referenced filter and raw is
\* the nodes array as the call leaves it.
deduplicate(ns, es) ==
  LET n == dedupNodes(ns)
      e == dedupEdges(es)
      uniqueNodes == [k \in DOMAIN n.rep |-> n.raw[n.rep[k]]]
  IN [nodes |-> SelectSeq(uniqueNodes, LAMBDA node : node.id \in e.referenced),
      edges |-> e.unique,
      unique |-> uniqueNodes,
      raw |-> n.raw]

\* deduplicate(array, keyFn) of index.js, keys[i] being keyFn(array[i]) (no
\* key function reads lines, the one field the loop writes): kept is the
\* filtered array, raw the array as the call leaves it.
deduplicate_index(array, keys) ==
  LET step[i \in 0..Len(array)] ==
        IF i = 0 THEN [raw |-> array, keys |-> << >>, rep |-> << >>]
        ELSE LET p == step[i - 1]
                 item == p.raw[i]
                 key == keys[i]
                 j == mapIndex(p.keys, key)
             IN IF j = 0
                THEN [p EXCEPT !.keys = Append(@, key), !.rep = Append(@, i)]
                ELSE IF fieldLines(item) # Null /\ fieldLines(p.raw[p.rep[j]]) # Null
                     THEN [p EXCEPT !.raw[p.rep[j]].lines = mergeLines(@, item.lines)]
                     ELSE p
      r == step[Len(array)]
  IN [kept |-> [k \in DOMAIN r.rep |-> r.raw[r.rep[k]]], raw |-> r.raw]

\* The label test of displayResults(filterAnonymous) in part_000 / part_001.
notAnonymous(item) ==
  fieldLabel(item) # Null /\ ~ includes(fieldLabel(item), "anonymous")

\* displayResults(filterAnonymous) of part_000 / part_001: the node and edge
\* lists it prints, what deduplicate returned, and the raw nodes afterwards.
displayResults(ns, es, filterAnonymous) ==
  LET d == deduplicate(ns, es)
  IN [nodes |-> IF filterAnonymous THEN SelectSeq(d.nodes, notAnonymous)
                ELSE d.nodes,
      edges |-> IF filterAnonymous THEN SelectSeq(d.edges, notAnonymous)
                ELSE d.edges,
      unique |-> d.unique,
      dedup |-> [nodes |-> d.nodes, edges |-> d.edges],
      raw |-> d.raw]

\* displayResults() of index.js.
displayResults_index(ns, es) ==
  LET n == deduplicate_index(ns, [i \in DOMAIN ns |-> nodeKey(ns[i])])
      e == deduplicate_index(es, [i \in DOMAIN es |-> edgeKey(es[i])])
  IN [nodes |-> n.kept, edges |-> e.kept, unique |-> n.kept,
      dedup |-> [nodes |-> n.kept, edges |-> e.kept],
      raw |-> n.raw]

(***************************************************************************)
(* The files a scan can meet.  ok is whether acorn.parse accepts the text; *)
(* body is the program's statements.  Two files of different directories   *)
(* may share a basename.                                                   *)
(***************************************************************************)
File(path, body) == [path |-> path, ok |-> TRUE, body |-> body]
Malformed(path) == [path |-> path, ok |-> FALSE, body |-> << >>]

callB(line) == CallExpression_(Ident(<<"b">>), line, << >>)

\* src/x.js:   function a() { b(); }
\*             function b() {}
FileAB == File(<<"src", "/", "x.js">>,
               <<FunctionDeclaration_(<<"a">>, 1, 1, <<callB(1)>>),
                 FunctionDeclaration_(<<"b">>, 2, 2, << >>)>>)

\* lib/x.js:   function b() {}
\*             function a() {
\*               b();
\*             }
FileBA == File(<<"lib", "/", "x.js">>,
               <<FunctionDeclaration_(<<"b">>, 1, 1, << >>),
                 FunctionDeclaration_(<<"a">>, 2, 4, <<callB(3)>>)>>)

\* src/y.js:   function isolated() {}
FileIsolated == File(<<"src", "/", "y.js">>,
                     <<FunctionDeclaration_(<<"isolated">>, 1, 1, << >>)>>)

\* src/z.js:   const f = () => {};
\*             b(f, 1, o.p);
\*             let n;
FileTop == File(<<"src", "/", "z.js">>,
                <<VariableDeclarator_(<<"f">>, ArrowFunctionExpression_(1, 1, << >>), 1, 1),
                  CallExpression_(Ident(<<"b">>), 2,
                                  <<Ident(<<"f">>), Literal_(<<"1">>),
                                    MemberExpression_(<<"o">>, <<"p">>)>>),
                  VariableDeclarator_(<<"n">>, NoInit, 3, 3)>>)

\* src/m.js:   import { foo } from "libX";
FileImport == File(<<"src", "/", "m.js">>,
                   <<ImportDeclaration_(<<"libX">>, <<ImportSpecifier_(<<"foo">>)>>, 1)>>)

\* src/n.js:   import d, * as ns from "libX";
FileImportDefault ==
  File(<<"src", "/", "n.js">>,
       <<ImportDeclaration_(<<"libX">>, <<ImportDefaultSpecifier_(<<"d">>),
                                          ImportNamespaceSpecifier_(<<"ns">>)>>, 1)>>)

\* src/a.js:   import { foo } from "b.js-c";
FileDashLib == File(<<"src", "/", "a.js">>,
                    <<ImportDeclaration_(<<"b.js", "-", "c">>,
                                         <<ImportSpecifier_(<<"foo">>)>>, 1)>>)

\* src/a.js-b.js:   import { foo } from "c";
FileDashName == File(<<"src", "/", "a.js", "-", "b.js">>,
                     <<ImportDeclaration_(<<"c">>, <<ImportSpecifier_(<<"foo">>)>>, 1)>>)

\* src/bad.js: text acorn rejects.
FileBad == Malformed(<<"src", "/", "bad.js">>)

\* src/v.js:   export default { b() {} };
\*             class K {
\*               b() { b(); }
\*               anonymousHelper() {}
\*             }
\*             o.b();
FileVue ==
  File(<<"src", "/", "v.js">>,
       <<ExportDefaultDeclaration_(
           ObjectExpression_(<<Property_(<<"b">>, FunctionExpression_(1, 1, << >>), 1, 1)>>),
           1, 1),
         ClassDeclaration_(<<"K">>, 2, 5,
           <<MethodDefinition_(<<"b">>, 3, 3, <<callB(3)>>),
             MethodDefinition_(<<"anonymous", "Helper">>, 4, 4, << >>)>>),
         CallExpression_(MemberExpression_(<<"o">>, <<"b">>), 6, << >>)>>)

\* src/d.js:   function b() {}
\*             export default function () {}
\*             function a() { b(); }
FileAnonDefault ==
  File(<<"src", "/", "d.js">>,
       <<FunctionDeclaration_(<<"b">>, 1, 1, << >>),
         ExportDefaultDeclaration_(FunctionDeclaration_(Null, 2, 2, << >>), 2, 2),
         FunctionDeclaration_(<<"a">>, 3, 3, <<callB(3)>>)>>)

Corpus == {FileAB, FileBA, FileIsolated, FileTop, FileImport, FileImportDefault,
           FileDashLib, FileDashName, FileBad, FileVue, FileAnonDefault}

Variants == {"index", "part_000", "part_001"}

\* The sequences of at most n files.
FileLists(n) == UNION {[1..k -> Corpus] : k \in 0..n}

(***************************************************************************)
(* The Extractor as functions of the accumulators, per variant v.          *)
(***************************************************************************)
visitors(v, st, fileName, ev) ==
  CASE v = "index" -> visitors_index(st, fileName, ev)
    [] v = "part_000" -> visitors_p0(st, fileName, ev)
    [] v = "part_001" -> visitors_p1(st, fileName, ev)

\* The rest of one file's walk; a visitor's TypeError ends it (scan's catch).
RECURSIVE walkFrom(_, _, _, _)
walkFrom(v, st, fileName, q) ==
  IF q = << >> THEN st
  ELSE LET r == visitors(v, st, fileName, q[1])
       IN IF r.threw THEN r.st ELSE walkFrom(v, r.st, fileName, Tail(q))

parseJavaScript(v, st, file) ==
  IF ~ file.ok THEN st
  ELSE walkFrom(v, st, basename(file.path), walk(file.body))

\* scanDirectory without a traversal failure: the accumulators after fs.
RECURSIVE scanDirectory(_, _, _)
scanDirectory(v, st, fs) ==
  IF fs = << >> THEN st
  ELSE scanDirectory(v, parseJavaScript(v, st, fs[1]), Tail(fs))

\* The final graph the variant's Resolver computes from accumulators.
finalGraph(v, st) ==
  IF v = "index" THEN displayResults_index(st.nodes, st.edges).dedup
  ELSE deduplicate(st.nodes, st.edges)

(***************************************************************************)
(* The program.                                                            *)
(***************************************************************************)
warnCouldNotParse_silent(ws, filePath) == ws

\* console.warn of parseJavaScript's catch.
warnCouldNotParse(ws, filePath) ==
  Append(ws, [msg |-> "Could not parse", file |-> filePath])

\* console.warn of scan's catch around parseFile.
warnErrorParsing(ws, filePath) ==
  Append(ws, [msg |-> "Error parsing", file |-> filePath])

\* What one rendering of results adds to the output.
Rendering(kind, filterAnonymous, r) ==
  [kind |-> kind, filterAnonymous |-> filterAnonymous, nodes |-> r.nodes,
   edges |-> r.edges, unique |-> r.unique, dedup |-> r.dedup]

\* displayResults as the variant's top level calls it.
display(filterAnonymous) ==
  IF variant = "index" THEN displayResults_index(nodes, edges)
  ELSE displayResults(nodes, edges, filterAnonymous)

Init ==
  /\ variant \in Variants
  /\ parentLinks \in (IF variant = "index" THEN {FALSE} ELSE BOOLEAN)
  /\ output \in (IF variant = "part_000" THEN BOOLEAN ELSE {FALSE})
  /\ files \in FileLists(MaxFiles)
  /\ pos = 1
  /\ cur = << >>
  /\ queue = << >>
  /\ nodes = << >>
  /\ edges = << >>
  /\ methodRegistry = << >>
  /\ warnings = << >>
  /\ errors = << >>
  /\ out = << >>
  /\ pc = "scan"

\* scan's loop reaches the next file: parseFile reads it and acorn parses it.
ParseFile ==
  /\ pc = "scan"
  /\ queue = << >>
  /\ pos <= Len(files)
  /\ pos' = pos + 1
  /\ cur' = basename(files[pos].path)
  /\ \/ /\ ~ files[pos].ok
        /\ warnings' = warnCouldNotParse(warnings, files[pos].path)
        /\ queue' = << >>
     \/ /\ files[pos].ok
        /\ queue' = walk(files[pos].body)
        /\ warnings' = warnings
  /\ UNCHANGED <<variant, parentLinks, output, files, nodes, edges, methodRegistry,
                 errors, out, pc>>

\* walk.simple calls the next visitor.
Visit ==
  /\ pc = "scan"
  /\ queue # << >>
  /\ LET r == visitors(variant, Accum(nodes, edges, methodRegistry), cur, Head(queue))
     IN \/ /\ ~ r.threw
           /\ nodes' = r.st.nodes
           /\ edges' = r.st.edges
           /\ methodRegistry' = r.st.methodRegistry
           /\ queue' = Tail(queue)
           /\ warnings' = warnings
        \/ /\ r.threw
           /\ queue' = << >>
           /\ warnings' = warnErrorParsing(warnings, files[pos - 1].path)
           /\ UNCHANGED <<nodes, edges, methodRegistry>>
  /\ UNCHANGED <<variant, parentLinks, output, files, pos, cur, errors, out, pc>>

\* The catch of the top level: log the error, then displayResults().
Catch(ns, o) ==
  LET r == IF variant = "index" THEN displayResults_index(ns, edges)
           ELSE displayResults(ns, edges, TRUE)
  IN /\ errors' = Append(errors, "Error during analysis")
     /\ out' = Append(o, Rendering("partial", variant # "index", r))
     /\ nodes' = r.raw
     /\ pc' = "done"

\* readdirSync or statSync throws between two files.
ScanError ==
  /\ pc = "scan"
  /\ queue = << >>
  /\ Catch(nodes, out)
  /\ UNCHANGED <<variant, parentLinks, output, files, pos, cur, queue, edges,
                 methodRegistry, warnings>>

\* The scan is over: displayResults(false) (displayResults() in index.js).
DisplayResults ==
  /\ pc = "scan"
  /\ queue = << >>
  /\ pos > Len(files)
  /\ LET r == display(FALSE)
     IN /\ out' = Append(out, Rendering("console", FALSE, r))
        /\ nodes' = r.raw
  /\ pc' = IF variant = "part_000" /\ output THEN "csv" ELSE "done"
  /\ UNCHANGED <<variant, parentLinks, output, files, pos, cur, queue, edges,
                 methodRegistry, warnings, errors>>

\* options.output: deduplicate again and write the two CSV files.
WriteCsv ==
  /\ pc = "csv"
  /\ LET d == deduplicate(nodes, edges)
     IN /\ out' = Append(out, Rendering("csv", FALSE,
                                        [nodes |-> d.nodes, edges |-> d.edges,
                                         unique |-> d.unique,
                                         dedup |-> [nodes |-> d.nodes,
                                                    edges |-> d.edges]]))
        /\ nodes' = d.raw
  /\ pc' = "done"
  /\ UNCHANGED <<variant, parentLinks, output, files, pos, cur, queue, edges,
                 methodRegistry, warnings, errors>>

\* options.output: deduplicate again, then writeFileSync throws.
WriteCsvError ==
  /\ pc = "csv"
  /\ Catch(deduplicate(nodes, edges).raw, out)
  /\ UNCHANGED <<variant, parentLinks, output, files, pos, cur, queue, edges,
                 methodRegistry, warnings>>

Next ==
  \/ ParseFile
  \/ Visit
  \/ ScanError
  \/ DisplayResults
  \/ WriteCsv
  \/ WriteCsvError

Spec == Init /\ [][Next]_vars

(***************************************************************************)
(* Properties.                                                             *)
(***************************************************************************)
NoAccum == Accum(<< >>, << >>, << >>)

\* The ids and kinds of a node list, and the triples of an edge list.
idKinds(ns) == {<<ns[i].id, ns[i].type>> : i \in DOMAIN ns}
triples(es) == {<<es[i].source, es[i].target, es[i].type>> : i \in DOMAIN es}
ids(ns) == {ns[i].id : i \in DOMAIN ns}

\* The scan ended without a traversal failure and its results were shown.
Completed == out # << >> /\ out[1].kind = "console"

\* C1: every run of deduplicate over the accumulated arrays of one
\* invocation returns the same final node records (id, label, type, lines)
\* and the same final edges as the first run.
C1_DedupIdempotent ==
  \A i, j \in DOMAIN out : out[i].dedup = out[j].dedup

\* C2: in every rendering (each variant, filterAnonymous on or off) every
\* reported node has a reported edge whose source or target is its id; a scan
\* of the single file `function isolated(){}` reports no node and no edge.
C2_ReferencedOnly ==
  \A k \in DOMAIN out :
    /\ \A i \in DOMAIN out[k].nodes :
         \E j \in DOMAIN out[k].edges :
           \/ out[k].edges[j].source = out[k].nodes[i].id
           \/ out[k].edges[j].target = out[k].nodes[i].id
    /\ files = <<FileIsolated>> => out[k].nodes = << >> /\ out[k].edges = << >>

\* No visitor raises on file f: its walk runs to the end.
walksClean(f) ==
  \A i \in DOMAIN walk(f.body) :
    ~ visitors(variant, NoAccum, basename(f.path), walk(f.body)[i]).threw

\* File f declares the named function a, whose body calls the bare identifier
\* b, and declares the named function b.
callScenario(f, a, b) ==
  /\ f.ok
  /\ \E i, j \in DOMAIN f.body :
       /\ f.body[i].type = "FunctionDeclaration"
       /\ f.body[i].id = a
       /\ \E c \in DOMAIN f.body[i].body :
            /\ f.body[i].body[c].type = "CallExpression"
            /\ f.body[i].body[c].callee = Ident(b)
       /\ f.body[j].type = "FunctionDeclaration"
       /\ f.body[j].id = b

\* C3: after the scan of a single file in which function a calls b and b is
\* declared (before or after a), the final graph holds the nodes file:a and
\* file:b and exactly one edge file:a -> file:b of kind calls.  Stated for
\* the method-registry variant on a tree that carries parent links.
C3_CallScenario ==
  (/\ variant = "part_000" /\ parentLinks
   /\ Completed /\ Len(files) = 1 /\ callScenario(files[1], <<"a">>, <<"b">>)
   /\ walksClean(files[1])) =>
    LET fileName == basename(files[1].path)
        g == out[1].dedup
        ab == [source |-> qualified(fileName, <<"a">>),
               target |-> qualified(fileName, <<"b">>), type |-> tCalls]
    IN /\ {qualified(fileName, <<"a">>), qualified(fileName, <<"b">>)} \subseteq ids(g.nodes)
       /\ Cardinality({i \in DOMAIN g.edges : g.edges[i] = ab}) = 1

\* The files in the order a permutation p of their positions gives.
reorder(fs, p) == [i \in DOMAIN fs |-> fs[p[i]]]

\* C4: the final graph (node ids and kinds, edge triples) of a completed scan
\* is the one every other scan order of the same files yields.  Stated for
\* the method-registry variant, which resolves a call at visit time, and for
\* files that parse and walk without error.
C4_OrderIndependent ==
  (/\ variant = "part_000" /\ Completed
   /\ \A i \in DOMAIN files : files[i].ok /\ walksClean(files[i])) =>
    \A p \in Permutations(DOMAIN files) :
      LET g == finalGraph(variant, scanDirectory(variant, NoAccum, reorder(files, p)))
      IN /\ idKinds(g.nodes) = idKinds(out[1].dedup.nodes)
         /\ triples(g.edges) = triples(out[1].dedup.edges)

\* The lines of the observations of (id, type) in raw, in the order observed.
observedLines(raw, id, type) ==
  LET sel == SelectSeq(raw, LAMBDA n : n.id = id /\ n.type = type)
  IN [k \in DOMAIN sel |-> sel[k].lines]

\* nodes[i] is the first observation of its (id, type).
firstSeen(raw, i) ==
  \A j \in 1..(i - 1) : raw[j].id # raw[i].id \/ raw[j].type # raw[i].type

C5_Step ==
  (out = << >> /\ out' # << >>) =>
    \A i \in DOMAIN nodes :
      LET ls == observedLines(nodes, nodes[i].id, nodes[i].type)
      IN (firstSeen(nodes, i) /\ \A k \in DOMAIN ls : ls[k] # Null) =>
           /\ nodes'[i].lines = join(ls, <<", ">>)
           /\ \E u \in DOMAIN out'[1].unique : out'[1].unique[u] = nodes'[i]

\* C5: the first run of deduplicate leaves, for every (id, type) whose k
\* observations all carry a line range, a representative whose lines are
\* exactly those k ranges, verbatim, in first-seen order, joined by ", ".
C5_Provenance == [][C5_Step]_vars

\* A first run merged two different ranges of one (id, type).
C5_Witness ==
  /\ Len(out) = 1
  /\ \E u \in DOMAIN out[1].unique :
       LET ls == out[1].unique[u].lines
       IN /\ Len(ls) = 11
          /\ ls[6] = ", "
          /\ SubSeq(ls, 1, 5) # SubSeq(ls, 7, 11)

\* C6: the deduplicated edges hold exactly one edge for each distinct
\* (source, target, type) triple observed: no triple twice, none missing.
C6_EdgeTriples ==
  \A k \in DOMAIN out :
    LET E == out[k].dedup.edges
    IN /\ \A i, j \in DOMAIN E : i # j => E[i] # E[j]
       /\ triples(E) = triples(edges)

\* C7: the deduplicated nodes (before the referenced-only filter) hold exactly
\* one record for each distinct (id, type) pair observed and none for any other
\* pair.
C7_EntityPairs ==
  \A k \in DOMAIN out :
    LET U == out[k].unique
    IN /\ \A i, j \in DOMAIN U :
            i # j => <<U[i].id, U[i].type>> # <<U[j].id, U[j].type>>
       /\ idKinds(U) = idKinds(nodes)

\* A run merged repeated observations and kept one id under two kinds.
C7_Witness ==
  /\ out # << >>
  /\ Len(out[1].unique) < Len(nodes)
  /\ \E i, j \in DOMAIN out[1].unique :
       /\ out[1].unique[i].id = out[1].unique[j].id
       /\ out[1].unique[i].type # out[1].unique[j].type

C8_Step ==
  (/\ pc = "scan" /\ queue = << >> /\ pos <= Len(files) /\ ~ files[pos].ok
   /\ pos' = pos + 1) =>
    /\ nodes' = nodes
    /\ edges' = edges
    /\ methodRegistry' = methodRegistry
    /\ warnings' = Append(warnings, [msg |-> "Could not parse",
                                     file |-> files[pos].path])
    /\ pc' = "scan"
    /\ queue' = << >>

C8_Later ==
  Completed =>
    /\ pos = Len(files) + 1
    /\ \A j \in DOMAIN files :
         (/\ files[j].ok /\ walksClean(files[j])
          /\ \E i \in 1..(j - 1) : ~ files[i].ok) =>
           \A e \in DOMAIN walk(files[j].body) :
             LET node == walk(files[j].body)[e].node
             IN node.type = "FunctionDeclaration" =>
                  qualified(basename(files[j].path), node.id) \in ids(nodes)

\* C8: the step over a file acorn rejects changes neither nodes nor edges and
\* adds one warning naming the file; the scan goes on, and the functions of
\* every later file are in the accumulators when the scan completes.
C8_ParseFailure == [][C8_Step]_vars /\ []C8_Later

\* A scan completed after skipping a malformed file and extracting a later one.
C8_Witness ==
  /\ Completed
  /\ nodes # << >>
  /\ \E i, j \in DOMAIN files :
       /\ i < j /\ ~ files[i].ok /\ files[j].ok
       /\ \E w \in DOMAIN warnings : warnings[w].file = files[i].path

\* C9: when the traversal fails, the error is logged, the scan stops, and the
\* report then rendered holds the deduplicated edges and their referenced
\* nodes of the files processed before the failure.
C9_PartialKept ==
  (out # << >> /\ out[1].kind = "partial") =>
    /\ errors # << >>
    /\ pc = "done"
    /\ triples(out[1].dedup.edges) \subseteq triples(out[1].edges)
    /\ Range(out[1].dedup.nodes) \subseteq Range(out[1].nodes)

\* How often x occurs in seq.
count(seq, x) == Cardinality({i \in DOMAIN seq : seq[i] = x})

\* The named specifiers of an import declaration.
namedSpecifiers(node) ==
  SelectSeq(node.specifiers, LAMBDA sp : sp.type = "ImportSpecifier")

libraryNode(node) ==
  [id |-> node.source, label |-> node.source, type |-> tLibrary, lines |-> Null]

importedNode(node, sp) ==
  [id |-> node.source \o <<"/">> \o sp.imported, label |-> sp.imported,
   type |-> tImportedMethod, lines |-> Null]

importEdge(fileName, node, sp) ==
  [source |-> fileName, target |-> node.source \o <<"/">> \o sp.imported,
   type |-> tImports]

\* The variants with an ImportDeclaration visitor.
ExtractsImports == variant \in {"index", "part_001"}

\* The ImportDeclaration visitor's step: what it appends to nodes and edges.
C10_Step ==
  (/\ ExtractsImports /\ pc = "scan" /\ queue # << >>
   /\ Head(queue).node.type = "ImportDeclaration"
   /\ queue' = Tail(queue)) =>
    LET node == Head(queue).node
        named == namedSpecifiers(node)
        newNodes == SubSeq(nodes', Len(nodes) + 1, Len(nodes'))
        newEdges == SubSeq(edges', Len(edges) + 1, Len(edges'))
        same(sp) == Cardinality({k \in DOMAIN named : named[k] = sp})
    IN /\ SubSeq(nodes', 1, Len(nodes)) = nodes
       /\ SubSeq(edges', 1, Len(edges)) = edges
       /\ count(newNodes, libraryNode(node)) = 1
       /\ \A k \in DOMAIN named :
            /\ count(newNodes, importedNode(node, named[k])) = same(named[k])
            /\ count(newEdges, importEdge(cur, node, named[k])) = same(named[k])
       /\ Len(newEdges) = Len(named)
       /\ \A i \in DOMAIN newNodes :
            \/ newNodes[i] = libraryNode(node)
            \/ \E k \in DOMAIN named : newNodes[i] = importedNode(node, named[k])
            \/ /\ variant = "part_001"
               /\ newNodes[i] = [id |-> cur, label |-> cur, type |-> tVariable,
                                 lines |-> Null]

\* The scan was of one file holding one import declaration.
singleImport ==
  /\ Len(files) = 1 /\ files[1].ok /\ Len(files[1].body) = 1
  /\ files[1].body[1].type = "ImportDeclaration"

\* The final graph of a single import: its edges are the file -> L/foo edges;
\* index.js keeps L and every L/foo, part_001 keeps the edges' endpoints (the
\* file and every L/foo) and drops L, which no edge references.
C10_Final ==
  (ExtractsImports /\ Completed /\ singleImport) =>
    LET node == files[1].body[1]
        fileName == basename(files[1].path)
        named == namedSpecifiers(node)
        g == out[1].dedup
        imported == {importedNode(node, named[k]).id : k \in DOMAIN named}
    IN /\ g.edges = [k \in DOMAIN named |-> importEdge(fileName, node, named[k])]
       /\ ids(g.nodes) = IF variant = "index" THEN {node.source} \cup imported
                         ELSE IF named = << >> THEN {}
                         ELSE {fileName} \cup imported

\* C10 (amended): in index.js and part_001 every import declaration from L
\* appends one (L, library, no lines) node and, per named specifier foo, one
\* (L/foo, imported-method) node and one edge file -> L/foo of kind imports;
\* default and namespace specifiers append nothing.  The final graph of a
\* single `import { foo } from "libX"` holds libX/foo and the edge, and holds
\* libX only in index.js.
C10_ImportExtraction == [][C10_Step]_vars /\ []C10_Final

\* A scan of the single import `import { foo } from "libX"` completed in the
\* variant with the referenced-only filter.
C10_Witness ==
  /\ variant = "part_001"
  /\ Completed
  /\ files = <<FileImport>>
  /\ out[1].dedup.edges # << >>

\* C10 as claimed: the final graph of `import { foo } from "libX"` holds the
\* entities libX and libX/foo and the edge file -> libX/foo.
C10_FinalGraphAsClaimed ==
  (ExtractsImports /\ Completed /\ singleImport
   /\ namedSpecifiers(files[1].body[1]) # << >>) =>
    LET node == files[1].body[1]
        named == namedSpecifiers(node)
        g == out[1].dedup
    IN /\ node.source \in ids(g.nodes)
       /\ \A k \in DOMAIN named :
            /\ importedNode(node, named[k]).id \in ids(g.nodes)
            /\ importEdge(basename(files[1].path), node, named[k]) \in Range(g.edges)

\* A step that runs deduplicate (each one appends a rendering to the output)
\* leaves the accumulated nodes and edges arrays as they were.
C11_Step == (out' # out) => (nodes' = nodes /\ edges' = edges)

\* C11: deduplicate leaves the raw observation lists unchanged: after it
\* returns, every record of the accumulated nodes and edges has the id, label,
\* type and lines it had before the call.
C11_RawUnchanged == [][C11_Step]_vars

(***************************************************************************)
(* The accumulator functions called directly: any sequence of addNode and  *)
(* addEdge calls of a variant, followed by one run of its Resolver.  pos   *)
(* counts the calls.                                                       *)
(***************************************************************************)
MaxCalls == 3

\* The arguments the calls draw from: names in one file, two kinds, and a
\* provenance that is missing or one range.
ApiFile == <<"x.js">>
ApiNames == {<<"a">>, <<"b">>}
ApiTypes == {tMethod, tVariable}
ApiLines == {Null, <<"[", "1", "-", "1", "]">>}

InitResolver ==
  /\ variant \in Variants
  /\ parentLinks = FALSE
  /\ output = FALSE
  /\ files = << >>
  /\ pos = 1
  /\ cur = << >>
  /\ queue = << >>
  /\ nodes = << >>
  /\ edges = << >>
  /\ methodRegistry = << >>
  /\ warnings = << >>
  /\ errors = << >>
  /\ out = << >>
  /\ pc = "api"

\* addNode(id, label, type, lines) (part_000: addNode(file, name, type, lines)).
AddNode ==
  /\ pc = "api"
  /\ pos <= MaxCalls
  /\ \E name \in ApiNames, type \in ApiTypes, lines \in ApiLines :
       LET st == Accum(nodes, edges, methodRegistry)
           id == qualified(ApiFile, name)
           r == CASE variant = "index" -> addNode_index(st, id, name, type, lines)
                  [] variant = "part_000" -> addNode_p0(st, ApiFile, name, type, lines)
                  [] variant = "part_001" -> addNode_p1(st, id, name, type, lines)
       IN /\ nodes' = r.nodes
          /\ edges' = r.edges
          /\ methodRegistry' = r.methodRegistry
  /\ pos' = pos + 1
  /\ UNCHANGED <<variant, parentLinks, output, files, cur, queue, warnings, errors,
                 out, pc>>

\* addEdge(source, target, type) (part_000: addEdge(sourceFile, sourceMethod,
\* targetFile, targetMethod, type)).
AddEdge ==
  /\ pc = "api"
  /\ pos <= MaxCalls
  /\ \E source \in ApiNames, target \in ApiNames :
       LET st == Accum(nodes, edges, methodRegistry)
           r == CASE variant = "index" ->
                       addEdge_index(st, qualified(ApiFile, source),
                                     qualified(ApiFile, target), tCalls)
                  [] variant = "part_000" ->
                       addEdge_p0(st, ApiFile, source, ApiFile, target, tCalls)
                  [] variant = "part_001" ->
                       addEdge_p1(st, qualified(ApiFile, source),
                                  qualified(ApiFile, target), tCalls)
       IN /\ nodes' = r.nodes
          /\ edges' = r.edges
          /\ methodRegistry' = r.methodRegistry
  /\ pos' = pos + 1
  /\ UNCHANGED <<variant, parentLinks, output, files, cur, queue, warnings, errors,
                 out, pc>>

\* The Resolver runs once over what the calls accumulated.
Deduplicate ==
  /\ pc = "api"
  /\ LET r == display(FALSE)
     IN /\ out' = Append(out, Rendering("console", FALSE, r))
        /\ nodes' = r.raw
  /\ pc' = "done"
  /\ UNCHANGED <<variant, parentLinks, output, files, pos, cur, queue, edges,
                 methodRegistry, warnings, errors>>

NextResolver ==
  \/ AddNode
  \/ AddEdge
  \/ Deduplicate

SpecResolver == InitResolver /\ [][NextResolver]_vars

\* The run of deduplicate over two observations of one (id, type) of which
\* exactly one carries a line range keeps that range on the one record.
C12_Step ==
  (out = << >> /\ out' # << >>) =>
    \A i, j \in DOMAIN nodes :
      (/\ i < j
       /\ nodes[i].id = nodes[j].id /\ nodes[i].type = nodes[j].type
       /\ Len(observedLines(nodes, nodes[i].id, nodes[i].type)) = 2
       /\ (nodes[i].lines = Null) # (nodes[j].lines = Null)) =>
        LET range == IF nodes[i].lines # Null THEN nodes[i].lines ELSE nodes[j].lines
            U == out'[1].unique
        IN /\ \E u \in DOMAIN U : U[u].id = nodes[i].id /\ U[u].type = nodes[i].type
           /\ \A u \in DOMAIN U :
                (U[u].id = nodes[i].id /\ U[u].type = nodes[i].type) =>
                  U[u].lines = range

RECURSIVE nearestEnclosing(_, _)
nearestEnclosing(chain, withMethods) ==
  IF chain = << >> THEN Null
  ELSE IF chain[1].type = "FunctionDeclaration" /\ chain[1].id # Null
       THEN chain[1].id
       ELSE IF withMethods /\ chain[1].type = "MethodDefinition" /\ chain[1].key # Null
            THEN chain[1].key
            ELSE nearestEnclosing(Tail(chain), withMethods)

\* The caller a variant falls back to for a call at top level.
fallbackCaller(fileName, node) ==
  CASE variant = "part_000" -> qualified(fileName, <<"global">>)
    [] variant = "part_001" ->
         fileName \o <<":", "anonymous", "[", ToString(node.loc[1]), "]">>
    [] variant = "index" -> fileName \o <<":", "anonymous">> \o linesOf(node)

\* The CallExpression visitor's step on a bare-identifier callee: the source
\* of every edge it appends.
C13_Step ==
  (/\ pc = "scan" /\ queue # << >>
   /\ Head(queue).node.type = "CallExpression"
   /\ Head(queue).node.callee.type = "Identifier"
   /\ queue' = Tail(queue)) =>
    LET ev == Head(queue)
        enclosing == nearestEnclosing(ev.parents, variant = "part_001")
        newEdges == SubSeq(edges', Len(edges) + 1, Len(edges'))
    IN \A i \in DOMAIN newEdges :
         newEdges[i].source = IF enclosing # Null THEN qualified(cur, enclosing)
                              ELSE fallbackCaller(cur, ev.node)

\* C13: for every call with a bare-identifier callee, the edge's source is the
\* nearest enclosing named function declaration (in part_001: or method
\* definition) among the call's ancestors; the variant's fallback caller is
\* used only when the call has no such ancestor.
C13_CallerResolution == [][C13_Step]_vars

\* Every visitor call of a parsed file's walk returns: the walk moves on to
\* the next node and no warning is logged.
C14_Step ==
  (pc = "scan" /\ queue # << >>) => (queue' = Tail(queue) /\ warnings' = warnings)

\* When the scan completes, every named function declaration of every parsed
\* file has been emitted.
C14_Emitted ==
  Completed =>
    \A j \in DOMAIN files :
      files[j].ok =>
        \A e \in DOMAIN walk(files[j].body) :
          LET node == walk(files[j].body)[e].node
          IN (node.type = "FunctionDeclaration" /\ node.id # Null) =>
               qualified(basename(files[j].path), node.id) \in ids(nodes)

\* C14: the walk of every successfully parsed tree finishes without raising,
\* also on a declaration without a name (an anonymous default export); such
\* a node is ignored and the file's other entities are still emitted.
C14_DefensiveExtraction == [][C14_Step]_vars /\ []C14_Emitted

\* The label of a record contains "anonymous" (a record without label: no).
labelAnonymous(item) ==
  fieldLabel(item) # Null /\ includes(fieldLabel(item), "anonymous")

\* C15: a rendering with filterAnonymous on reports exactly the final nodes
\* and edges whose label does not contain "anonymous", records without a
\* label included; a rendering with the flag off reports all of them.
C15_AnonymousFilter ==
  \A k \in DOMAIN out :
    IF out[k].filterAnonymous
    THEN /\ out[k].nodes = SelectSeq(out[k].dedup.nodes, LAMBDA n : ~ labelAnonymous(n))
         /\ out[k].edges = SelectSeq(out[k].dedup.edges, LAMBDA e : ~ labelAnonymous(e))
    ELSE /\ out[k].nodes = out[k].dedup.nodes
         /\ out[k].edges = out[k].dedup.edges

\* C16: in part_001, after any sequence of addNode and addEdge calls followed
\* by deduplicate, every final edge's source and target is the id of a final
\* node, and no two final nodes share an id.
C16_ClosedUniqueIds ==
  variant = "part_001" =>
    \A k \in DOMAIN out :
      LET g == out[k].dedup
      IN /\ \A e \in DOMAIN g.edges :
              {g.edges[e].source, g.edges[e].target} \subseteq ids(g.nodes)
         /\ \A i, j \in DOMAIN g.nodes : i # j => g.nodes[i].id # g.nodes[j].id

\* The closure half of C16 alone.
C16_Closed ==
  variant = "part_001" =>
    \A k \in DOMAIN out :
      \A e \in DOMAIN out[k].dedup.edges :
        {out[k].dedup.edges[e].source, out[k].dedup.edges[e].target}
          \subseteq ids(out[k].dedup.nodes)

====
